---- MODULE Spec2Model ----
(***************************************************************************)
(* Model of the NullAgent escalation workflow                              *)
(* (src/NullableAnnotationWorkflow.py and the agents it drives).           *)
(*                                                                         *)
(* One top-level call (execute or train_nullfix) is in progress at a time; *)
(* pc is the position inside it.  Every external call (verifier, slicer,   *)
(* context provider, helper, generative agent) is one step.  An exception  *)
(* that no handler catches unwinds the whole call: pc becomes "aborted".   *)
(*                                                                         *)
(* The model assumes that every module imports, i.e. that the names used   *)
(* in decorator expressions resolve the way agents/nullinfer.py resolves   *)
(* them.  Names looked up while a method runs (self.summarizer,            *)
(* null_focus.getContext) are resolved against what the source defines.    *)
(***************************************************************************)
EXTENDS Integers, Sequences, FiniteSets, TLC

\* ---------------------------------------------------------------- bounds
MaxIssues == 2      \* issues the verifier reports at once
MaxOps == 2         \* top-level calls (execute / train_nullfix) in a session

\* ------------------------------------------------------ program constants
Threshold == 300    \* NullableAnnotationWorkflow.py:88
Tries == 3          \* nullinfer.py:39, nullfix.py:43  (tries=3)

\* attributes set by NullableAnnotationWorkflow.__init__
WorkflowAttrs ==
    {"annotator", "null_away", "vgr", "slicer",
     "null_infer", "null_focus", "null_fix", "helper"}

\* methods defined by class NullFocus
NullFocusAttrs ==
    {"gather_dependencies", "generate_prompt", "get_context"}

\* ------------------------------------------------------------- data
\* An issue list is what getWarnings() returns: issues 1..MaxIssues, in
\* the verifier's order, none reported twice.
IssueLists ==
    {s \in UNION {[1..n -> 1..MaxIssues] : n \in 0..MaxIssues} :
        \A i \in 1..Len(s), j \in 1..Len(s) : i < j => s[i] < s[j]}

\* slicer.getCodeSlice(warning): the text is represented by the warning it
\* was cut around and its length, the only thing level_two looks at.
SliceLens == {1, Threshold, Threshold + 1}

\* Agent.send_message: either returns a response or raises RetryError.
SendOutcomes == {"ok", "transient"}

\* Responses of the LLM: None, or a text (a sequence of characters).
None == [none |-> TRUE, text |-> <<>>]
Text(t) == [none |-> FALSE, text |-> t]
Responses ==
    {None, Text(<<>>), Text(<<" ">>), Text(<<"x">>), Text(<<" ", "x", " ">>)}

RECURSIVE LStrip(_)
LStrip(t) == IF t # <<>> /\ Head(t) = " " THEN LStrip(Tail(t)) ELSE t

RECURSIVE RStrip(_)
RStrip(t) ==
    IF t # <<>> /\ t[Len(t)] = " " THEN RStrip(SubSeq(t, 1, Len(t) - 1)) ELSE t

\* str.strip()
Strip(t) == RStrip(LStrip(t))

\* NullInfer.parse_response / NullFix.parse_response:
\*   return response.strip() if response else ""
parse_response(r) == IF r.none \/ r.text = <<>> THEN <<>> ELSE Strip(r.text)

\* the summarizer's output for a slice; "" is <<>>
Summarize(slice) == <<"summary", slice.w>>

\* helper.searchSolutions(null_context)
searchSolutions(ctx) == <<"solutions">> \o ctx

\* verifier: hasWarnings() answers from the result of the last check
hasWarnings(iss) == Len(iss) > 0

NoSlice == [w |-> 0, len |-> 0]
CallNames ==
    {"annotate", "refactor", "slice", "summarize", "infer", "context",
     "helper", "fix", "run", "getWarnings", "hasWarnings", "train"}
NoCalls == [c \in CallNames |-> 0]
NoArgs == [slice |-> NoSlice, summary |-> <<>>, context |-> <<>>,
           report |-> <<>>, w |-> 0]

VARIABLES
    pc,               \* position in the current top-level call
    op,               \* "none", "execute" or "train": the current call
    ops,              \* top-level calls started so far
    issues,           \* verifier: result of its last check
    stale,            \* code changed since the verifier's last check
    warnings, idx,    \* the level's local list and loop position
    code_slice, summary, null_context, solution_report, annotated_code,
    focus,            \* the warning null_context was derived for, 0: none
    fails,            \* transient failures of the current decorated call
    attempts,         \* attempts of the current decorated call
    calls,            \* collaborator calls made by the current top-level call
    levels,           \* levels entered by the current run, in order
    fetched,          \* fetched[k]: <<list>> level k's getWarnings() returned
    after,            \* after[k]: <<list>> enumerated by level k's re-run
    hw,               \* answers of the hasWarnings() calls of the run
    fatal,            \* kind of the exception that ended the call
    failedAt,         \* [level, issue] being processed when it was raised
    lastArgs,         \* arguments of the latest strategy invocation
    processed,        \* issues whose strategy call returned, per level
    training_data,    \* NullFix.training_data
    tuned,            \* corpus handed to FixerPro.fineTune, latest call
    twarnings, tidx,  \* train_nullfix's list and loop position
    iwarnings, iidx,  \* NullFix.train's list and loop position
    opLog             \* the previous and the current top-level call: kind,
                      \* issues found, corpus size, how the call before ended

vars ==
    <<pc, op, ops, issues, stale, warnings, idx, code_slice, summary,
      null_context, focus, solution_report, annotated_code, fails, attempts,
      calls,
      levels, fetched, after, hw, fatal, failedAt, lastArgs, processed, training_data,
      tuned, twarnings, tidx, iwarnings, iidx, opLog>>

Bump(c) == [calls EXCEPT ![c] = @ + 1]

\* NullFix.__init__ and NullableAnnotationWorkflow.__init__; the verifier
\* holds the result of whatever check ran last.
Init ==
    /\ pc = "idle" /\ op = "none" /\ ops = 0
    /\ issues \in IssueLists
    /\ stale = FALSE
    /\ warnings = <<>> /\ idx = 1
    /\ code_slice = NoSlice /\ summary = <<>> /\ null_context = <<>>
    /\ focus = 0
    /\ solution_report = <<>> /\ annotated_code = <<>>
    /\ fails = 0 /\ attempts = 0
    /\ calls = NoCalls
    /\ levels = <<>>
    /\ fetched = [k \in 1..3 |-> <<>>]
    /\ after = [k \in 1..3 |-> <<>>]
    /\ hw = <<>>
    /\ fatal = "none" /\ failedAt = <<0, 0>>
    /\ lastArgs = NoArgs
    /\ processed = [k \in 1..3 |-> <<>>]
    /\ training_data = <<>>
    /\ tuned = <<>>
    /\ twarnings = <<>> /\ tidx = 1
    /\ iwarnings = <<>> /\ iidx = 1
    /\ opLog = <<>>

\* variant: exhausted retries are swallowed and the run reports completion
RaiseSwallowsExhausted(k, level, issue) ==
    /\ pc' = IF k = "exhausted" THEN "done" ELSE "aborted"
    /\ fatal' = k
    /\ failedAt' = <<level, issue>>

\* variant: a verifier fault is taken for "no outstanding issues"
RaiseVerifierAsNoIssues(k, level, issue) ==
    /\ pc' = IF k = "verifier" THEN "done" ELSE "aborted"
    /\ fatal' = k
    /\ failedAt' = <<level, issue>>

\* An uncaught exception of kind k leaves the current call: execute and the
\* level methods have no handler.
Raise(k, level, issue) ==
    /\ pc' = "aborted"
    /\ fatal' = k
    /\ failedAt' = <<level, issue>>

NoRaise == UNCHANGED <<fatal, failedAt>>


\* ------------------------------------------------- retry (decorator)
\* variant: the error is re-raised one attempt early
RetryExhaustedEarly(f) == f >= Tries - 1

\* variant: tries=-1, the call is retried without a limit
RetryWithoutLimit(f) == FALSE

\* @retry((RetryError,), tries=3, delay=5): after a RetryError the remaining
\* tries are decremented, and the error is re-raised once none remain.
RetryExhausted(f) == f >= Tries

\* ------------------------------------------------- NullFocus.get_context
\* The call is not decorated: a RetryError of send_message leaves it.  The
\* response is stripped without a test for None.
get_context(o, r) ==
    IF o = "transient" THEN [raise |-> "transient", context |-> <<>>]
    ELSE IF r.none THEN [raise |-> "nonetype", context |-> <<>>]
    ELSE [raise |-> "none", context |-> Strip(r.text)]

\* how a call ended: normally, by a failure of a collaborator (verifier
\* fault, LLM failure or empty answer), or by a failed name lookup
EndedBy(k) ==
    IF k = "none" THEN "ok" ELSE IF k = "attribute" THEN "lookup" ELSE "env"

\* the log keeps the call before the current one and the current one
LastCall(log, k) ==
    IF log = <<>> THEN <<>> ELSE <<[log[Len(log)] EXCEPT !.end = EndedBy(k)]>>

\* variant: the loop stops before the last element
LoopDoneOffByOne(i, ws) == i >= Len(ws)

\* `for warning in warnings:` is over once every element has been visited
LoopDone(i, ws) == i > Len(ws)

\* ------------------------------------------------- execute(), level 1
\* execute, lines 36-39: a run starts and calls level_one().
execute ==
    /\ pc \in {"idle", "done", "aborted"}
    /\ ops < MaxOps
    /\ ops' = ops + 1
    /\ op' = "execute"
    /\ opLog' = Append(LastCall(opLog, fatal),
                        [kind |-> "execute", n |-> -1,
                         before |-> Len(training_data), end |-> "running"])
    /\ pc' = "L1_annotate"
    /\ levels' = <<1>>
    /\ calls' = NoCalls
    /\ fetched' = [k \in 1..3 |-> <<>>]
    /\ after' = [k \in 1..3 |-> <<>>]
    /\ hw' = <<>>
    /\ fatal' = "none" /\ failedAt' = <<0, 0>>
    /\ lastArgs' = NoArgs
    /\ processed' = [k \in 1..3 |-> <<>>]
    /\ warnings' = <<>> /\ idx' = 1
    /\ code_slice' = NoSlice /\ summary' = <<>> /\ null_context' = <<>>
    /\ focus' = 0
    /\ solution_report' = <<>> /\ annotated_code' = <<>>
    /\ fails' = 0 /\ attempts' = 0
    /\ twarnings' = <<>> /\ tidx' = 1
    /\ iwarnings' = <<>> /\ iidx' = 1
    /\ UNCHANGED <<issues, stale, training_data, tuned>>

\* level_one, line 59: annotator.placeInitialAnnotations() on the whole unit
placeInitialAnnotations ==
    /\ pc = "L1_annotate"
    /\ calls' = Bump("annotate")
    /\ stale' = TRUE
    /\ pc' = "L1_getWarnings"
    /\ UNCHANGED <<op, ops, issues, warnings, idx, code_slice, summary,
                    null_context, focus, solution_report, annotated_code,
                    fails, attempts, levels, fetched, after, hw, fatal,
                    failedAt, lastArgs, processed, training_data, tuned,
                    twarnings, tidx, iwarnings, iidx, opLog>>

\* a verifier operation either answers or raises a hard fault
VerifierOutcomes == {"ok", "fault"}

\* level_one, line 62: warnings = null_away.getWarnings()
L1GetWarnings ==
    /\ pc = "L1_getWarnings"
    /\ calls' = Bump("getWarnings")
    /\ \E o \in VerifierOutcomes :
         IF o = "fault"
         THEN /\ Raise("verifier", 1, 0)
              /\ UNCHANGED <<warnings, idx, fetched>>
         ELSE /\ warnings' = issues
              /\ fetched' = [fetched EXCEPT ![1] = <<issues>>]
              /\ idx' = 1
              /\ pc' = "L1_loop"
              /\ NoRaise
    /\ UNCHANGED <<op, ops, issues, stale, code_slice, summary, null_context,
                    focus, solution_report, annotated_code, fails, attempts,
                    levels, after, hw, lastArgs, processed, training_data,
                    tuned, twarnings, tidx, iwarnings, iidx, opLog>>

\* level_one, lines 65-67: vgr.refactor(warning) for each warning
L1Refactor ==
    /\ pc = "L1_loop"
    /\ ~LoopDone(idx, warnings)
    /\ calls' = Bump("refactor")
    /\ stale' = TRUE
    /\ processed' = [processed EXCEPT ![1] = Append(@, warnings[idx])]
    /\ idx' = idx + 1
    /\ UNCHANGED <<pc, op, ops, issues, warnings, code_slice, summary,
                    null_context, focus, solution_report, annotated_code,
                    fails, attempts, levels, fetched, after, hw, fatal,
                    failedAt, lastArgs, training_data, tuned, twarnings,
                    tidx, iwarnings, iidx, opLog>>

\* null_away.run(): the verifier checks the code as it is now
VerifierRun(level, next) ==
    /\ calls' = Bump("run")
    /\ \E o \in VerifierOutcomes :
         IF o = "fault"
         THEN /\ Raise("verifier", level, 0)
              /\ UNCHANGED <<issues, stale, after>>
         ELSE /\ \E r \in IssueLists :
                   /\ issues' = r
                   /\ after' = [after EXCEPT ![level] = <<r>>]
              /\ stale' = FALSE
              /\ pc' = next
              /\ NoRaise

\* level_one, line 70: null_away.run() once the loop is over
L1Run ==
    /\ pc = "L1_loop"
    /\ LoopDone(idx, warnings)
    /\ VerifierRun(1, "X_check2")
    /\ UNCHANGED <<op, ops, warnings, idx, code_slice, summary, null_context,
                   focus, solution_report, annotated_code, fails, attempts, levels,
                   hw, lastArgs, processed, fetched, training_data, tuned, twarnings,
                   tidx, iwarnings, iidx, opLog>>

\* variant: the run escalates whatever the verifier answers
EscalatesAlways(answer) == TRUE

\* variant: the condition is negated
EscalatesNegated(answer) == ~answer

\* variant: level_three() is called without a test
EscalatesOrLastCheck(answer) == answer \/ pc = "X_check3"

\* the condition of execute's two `if self.null_away.hasWarnings():`
Escalates(answer) == answer

\* execute, lines 42-43: if null_away.hasWarnings(): level_two()
CheckLevel2 ==
    /\ pc = "X_check2"
    /\ calls' = Bump("hasWarnings")
    /\ \E o \in VerifierOutcomes :
         IF o = "fault"
         THEN /\ Raise("verifier", 1, 0)
              /\ UNCHANGED <<hw, levels>>
         ELSE /\ hw' = Append(hw, hasWarnings(issues))
              /\ IF Escalates(hasWarnings(issues))
                 THEN /\ pc' = "L2_getWarnings"
                      /\ levels' = Append(levels, 2)
                 ELSE /\ pc' = "X_check3"
                      /\ levels' = levels
              /\ NoRaise
    /\ UNCHANGED <<op, ops, issues, stale, warnings, idx, code_slice,
                    summary, null_context, focus, solution_report,
                    annotated_code, fails, attempts, fetched, after,
                    lastArgs, processed, training_data, tuned, twarnings,
                    tidx, iwarnings, iidx, opLog>>

\* ------------------------------------------------- level 2
\* level_two, line 80: warnings = null_away.getWarnings()
L2GetWarnings ==
    /\ pc = "L2_getWarnings"
    /\ calls' = Bump("getWarnings")
    /\ \E o \in VerifierOutcomes :
         IF o = "fault"
         THEN /\ Raise("verifier", 2, 0)
              /\ UNCHANGED <<warnings, idx, fetched>>
         ELSE /\ warnings' = issues
              /\ fetched' = [fetched EXCEPT ![2] = <<issues>>]
              /\ idx' = 1
              /\ pc' = "L2_loop"
              /\ NoRaise
    /\ UNCHANGED <<op, ops, issues, stale, code_slice, summary, null_context,
                    focus, solution_report, annotated_code, fails, attempts,
                    levels, after, hw, lastArgs, processed, training_data,
                    tuned, twarnings, tidx, iwarnings, iidx, opLog>>

\* level_two, line 88: `if len(code_slice) > 300`
NeedsSummary(slice) == slice.len > Threshold

\* level_two, lines 84-88: slice the code around the warning, summary = ""
L2Slice ==
    /\ pc = "L2_loop"
    /\ ~LoopDone(idx, warnings)
    /\ calls' = Bump("slice")
    /\ \E n \in SliceLens :
         /\ code_slice' = [w |-> warnings[idx], len |-> n]
         /\ pc' = IF NeedsSummary(code_slice') THEN "L2_summarize"
                  ELSE "L2_place"
    /\ summary' = <<>>
    /\ fails' = 0 /\ attempts' = 0
    /\ UNCHANGED <<op, ops, issues, stale, warnings, idx, null_context,
                    focus, solution_report, annotated_code, levels, fetched,
                    after, hw, fatal, failedAt, lastArgs, processed,
                    training_data, tuned, twarnings, tidx, iwarnings, iidx,
                    opLog>>

\* level_two, line 89: summary = self.summarizer.summarize(code_slice);
\* the attribute is looked up on the workflow object.
L2Summarize ==
    /\ pc = "L2_summarize"
    /\ IF "summarizer" \in WorkflowAttrs
       THEN /\ summary' = Summarize(code_slice)
            /\ calls' = Bump("summarize")
            /\ pc' = "L2_place"
            /\ NoRaise
       ELSE /\ Raise("attribute", 2, warnings[idx])
            /\ UNCHANGED <<summary, calls>>
    /\ UNCHANGED <<op, ops, issues, stale, warnings, idx, code_slice,
                    null_context, focus, solution_report, annotated_code,
                    fails, attempts, levels, fetched, after, hw, lastArgs,
                    processed, training_data, tuned, twarnings, tidx,
                    iwarnings, iidx, opLog>>

\* variant: an empty result of the strategy is treated as a failure
L2PlaceNullableRejectsEmpty ==
    /\ pc = "L2_place"
    /\ attempts' = attempts + 1
    /\ calls' = IF attempts = 0 THEN Bump("infer") ELSE calls
    /\ lastArgs' = [slice |-> code_slice, summary |-> summary,
                    context |-> <<>>, report |-> <<>>, w |-> warnings[idx]]
    /\ \E o \in SendOutcomes :
         IF o = "ok"
         THEN /\ \E r \in Responses : annotated_code' = parse_response(r)
              /\ fails' = fails
              /\ IF annotated_code' = <<>>
                 THEN /\ Raise("empty", 2, warnings[idx])
                      /\ UNCHANGED <<processed, idx>>
                 ELSE /\ processed' =
                           [processed EXCEPT ![2] = Append(@, warnings[idx])]
                      /\ idx' = idx + 1
                      /\ pc' = "L2_loop"
                      /\ NoRaise
         ELSE /\ fails' = fails + 1
              /\ UNCHANGED <<annotated_code, processed, idx>>
              /\ IF RetryExhausted(fails')
                 THEN Raise("exhausted", 2, warnings[idx])
                 ELSE pc' = pc /\ NoRaise
    /\ UNCHANGED <<op, ops, issues, stale, warnings, code_slice, summary,
                    null_context, focus, solution_report, levels, fetched,
                    after, hw, training_data, tuned, twarnings, tidx,
                    iwarnings, iidx, opLog>>

\* variant: the annotated code is written back to the codebase
L2PlaceNullableApplies ==
    /\ pc = "L2_place"
    /\ attempts' = attempts + 1
    /\ calls' = IF attempts = 0 THEN Bump("infer") ELSE calls
    /\ lastArgs' = [slice |-> code_slice, summary |-> summary,
                    context |-> <<>>, report |-> <<>>, w |-> warnings[idx]]
    /\ \E o \in SendOutcomes :
         IF o = "ok"
         THEN /\ \E r \in Responses : annotated_code' = parse_response(r)
              /\ processed' = [processed EXCEPT ![2] = Append(@, warnings[idx])]
              /\ idx' = idx + 1
              /\ fails' = fails
              /\ stale' = TRUE
              /\ pc' = "L2_loop"
              /\ NoRaise
         ELSE /\ fails' = fails + 1
              /\ UNCHANGED <<annotated_code, processed, idx, stale>>
              /\ IF RetryExhausted(fails')
                 THEN Raise("exhausted", 2, warnings[idx])
                 ELSE pc' = pc /\ NoRaise
    /\ UNCHANGED <<op, ops, issues, warnings, code_slice, summary,
                    null_context, focus, solution_report, levels, fetched,
                    after, hw, training_data, tuned, twarnings, tidx,
                    iwarnings, iidx, opLog>>

\* level_two, line 92 and NullInfer.place_nullable_annotations (decorated):
\* one attempt of null_infer.place_nullable_annotations(code_slice, summary)
L2PlaceNullable ==
    /\ pc = "L2_place"
    /\ attempts' = attempts + 1
    /\ calls' = IF attempts = 0 THEN Bump("infer") ELSE calls
    /\ lastArgs' = [slice |-> code_slice, summary |-> summary,
                    context |-> <<>>, report |-> <<>>, w |-> warnings[idx]]
    /\ \E o \in SendOutcomes :
         IF o = "ok"
         THEN /\ \E r \in Responses : annotated_code' = parse_response(r)
              /\ processed' = [processed EXCEPT ![2] = Append(@, warnings[idx])]
              /\ idx' = idx + 1
              /\ fails' = fails
              /\ pc' = "L2_loop"
              /\ NoRaise
         ELSE /\ fails' = fails + 1
              /\ UNCHANGED <<annotated_code, processed, idx>>
              /\ IF RetryExhausted(fails')
                 THEN Raise("exhausted", 2, warnings[idx])
                 ELSE pc' = pc /\ NoRaise
    /\ UNCHANGED <<op, ops, issues, stale, warnings, code_slice, summary,
                    null_context, focus, solution_report, levels, fetched,
                    after, hw, training_data, tuned, twarnings, tidx,
                    iwarnings, iidx, opLog>>

\* variant: a level whose list is empty returns without its verifier re-run
L2RunSkippedWhenEmpty ==
    /\ pc = "L2_loop"
    /\ LoopDone(idx, warnings)
    /\ IF warnings = <<>>
       THEN /\ pc' = "X_check3"
            /\ UNCHANGED <<calls, issues, stale, after, fatal, failedAt>>
       ELSE VerifierRun(2, "X_check3")
    /\ UNCHANGED <<op, ops, warnings, idx, code_slice, summary, null_context,
                   focus, solution_report, annotated_code, fails, attempts, levels,
                   hw, lastArgs, processed, fetched, training_data, tuned, twarnings,
                   tidx, iwarnings, iidx, opLog>>

\* level_two, line 98: null_away.run() once the loop is over
L2Run ==
    /\ pc = "L2_loop"
    /\ LoopDone(idx, warnings)
    /\ VerifierRun(2, "X_check3")
    /\ UNCHANGED <<op, ops, warnings, idx, code_slice, summary, null_context,
                   focus, solution_report, annotated_code, fails, attempts, levels,
                   hw, lastArgs, processed, fetched, training_data, tuned, twarnings,
                   tidx, iwarnings, iidx, opLog>>

\* execute, lines 46-49: if null_away.hasWarnings(): level_three(); the run
\* is complete when the condition is false.
CheckLevel3 ==
    /\ pc = "X_check3"
    /\ calls' = Bump("hasWarnings")
    /\ \E o \in VerifierOutcomes :
         IF o = "fault"
         THEN /\ Raise("verifier", 2, 0)
              /\ UNCHANGED <<hw, levels>>
         ELSE /\ hw' = Append(hw, hasWarnings(issues))
              /\ IF Escalates(hasWarnings(issues))
                 THEN /\ pc' = "L3_getWarnings"
                      /\ levels' = Append(levels, 3)
                 ELSE /\ pc' = "done"
                      /\ levels' = levels
              /\ NoRaise
    /\ UNCHANGED <<op, ops, issues, stale, warnings, idx, code_slice,
                    summary, null_context, focus, solution_report,
                    annotated_code, fails, attempts, fetched, after,
                    lastArgs, processed, training_data, tuned, twarnings,
                    tidx, iwarnings, iidx, opLog>>

\* ------------------------------------------------- level 3
\* level_three, line 107: warnings = null_away.getWarnings()
L3GetWarnings ==
    /\ pc = "L3_getWarnings"
    /\ calls' = Bump("getWarnings")
    /\ \E o \in VerifierOutcomes :
         IF o = "fault"
         THEN /\ Raise("verifier", 3, 0)
              /\ UNCHANGED <<warnings, idx, fetched>>
         ELSE /\ warnings' = issues
              /\ fetched' = [fetched EXCEPT ![3] = <<issues>>]
              /\ idx' = 1
              /\ pc' = "L3_loop"
              /\ NoRaise
    /\ UNCHANGED <<op, ops, issues, stale, code_slice, summary, null_context,
                    focus, solution_report, annotated_code, fails, attempts,
                    levels, after, hw, lastArgs, processed, training_data,
                    tuned, twarnings, tidx, iwarnings, iidx, opLog>>

\* level_three, line 111: null_focus.get_context(warning)["context"]
L3GetContext ==
    /\ pc = "L3_loop"
    /\ ~LoopDone(idx, warnings)
    /\ calls' = Bump("context")
    /\ focus' = warnings[idx]
    /\ fails' = 0 /\ attempts' = 0
    /\ \E o \in SendOutcomes, r \in Responses :
         LET res == get_context(o, r) IN
         IF res.raise # "none"
         THEN /\ Raise(res.raise, 3, warnings[idx])
              /\ UNCHANGED null_context
         ELSE /\ null_context' = res.context
              /\ pc' = "L3_search"
              /\ NoRaise
    /\ UNCHANGED <<op, ops, issues, stale, warnings, idx, code_slice,
                    summary, solution_report, annotated_code, levels,
                    fetched, after, hw, lastArgs, processed, training_data,
                    tuned, twarnings, tidx, iwarnings, iidx, opLog>>

\* variant: the solutions are searched without the context
L3SearchSolutionsWithoutContext ==
    /\ pc = "L3_search"
    /\ calls' = Bump("helper")
    /\ solution_report' = searchSolutions(<<>>)
    /\ pc' = "L3_place"
    /\ UNCHANGED <<op, ops, issues, stale, warnings, idx, code_slice,
                    summary, null_context, focus, annotated_code, fails,
                    attempts, levels, fetched, after, hw, fatal, failedAt,
                    lastArgs, processed, training_data, tuned, twarnings,
                    tidx, iwarnings, iidx, opLog>>

\* level_three, line 114: helper.searchSolutions(null_context)
L3SearchSolutions ==
    /\ pc = "L3_search"
    /\ calls' = Bump("helper")
    /\ solution_report' = searchSolutions(null_context)
    /\ pc' = "L3_place"
    /\ UNCHANGED <<op, ops, issues, stale, warnings, idx, code_slice,
                    summary, null_context, focus, annotated_code, fails,
                    attempts, levels, fetched, after, hw, fatal, failedAt,
                    lastArgs, processed, training_data, tuned, twarnings,
                    tidx, iwarnings, iidx, opLog>>

\* variant: level 3 records what it did in NullFix's training corpus
L3PlaceAnnotationsRecords ==
    /\ pc = "L3_place"
    /\ attempts' = attempts + 1
    /\ calls' = IF attempts = 0 THEN Bump("fix") ELSE calls
    /\ lastArgs' = [slice |-> NoSlice, summary |-> <<>>,
                    context |-> null_context, report |-> solution_report,
                    w |-> warnings[idx]]
    /\ \E o \in SendOutcomes :
         IF o = "ok"
         THEN /\ \E r \in Responses : annotated_code' = parse_response(r)
              /\ training_data' =
                   Append(training_data,
                          <<NoSlice, null_context, annotated_code', issues>>)
              /\ processed' = [processed EXCEPT ![3] = Append(@, warnings[idx])]
              /\ idx' = idx + 1
              /\ fails' = fails
              /\ pc' = "L3_loop"
              /\ NoRaise
         ELSE /\ fails' = fails + 1
              /\ UNCHANGED <<annotated_code, processed, idx, training_data>>
              /\ IF RetryExhausted(fails')
                 THEN Raise("exhausted", 3, warnings[idx])
                 ELSE pc' = pc /\ NoRaise
    /\ UNCHANGED <<op, ops, issues, stale, warnings, code_slice, summary,
                    null_context, focus, solution_report, levels, fetched,
                    after, hw, tuned, twarnings, tidx, iwarnings, iidx,
                    opLog>>

\* level_three, line 118 and NullFix.place_annotations (decorated): one
\* attempt of null_fix.place_annotations(warning["code_segment"],
\* null_context, solution_report)
L3PlaceAnnotations ==
    /\ pc = "L3_place"
    /\ attempts' = attempts + 1
    /\ calls' = IF attempts = 0 THEN Bump("fix") ELSE calls
    /\ lastArgs' = [slice |-> NoSlice, summary |-> <<>>,
                    context |-> null_context, report |-> solution_report,
                    w |-> warnings[idx]]
    /\ \E o \in SendOutcomes :
         IF o = "ok"
         THEN /\ \E r \in Responses : annotated_code' = parse_response(r)
              /\ processed' = [processed EXCEPT ![3] = Append(@, warnings[idx])]
              /\ idx' = idx + 1
              /\ fails' = fails
              /\ pc' = "L3_loop"
              /\ NoRaise
         ELSE /\ fails' = fails + 1
              /\ UNCHANGED <<annotated_code, processed, idx>>
              /\ IF RetryExhausted(fails')
                 THEN Raise("exhausted", 3, warnings[idx])
                 ELSE pc' = pc /\ NoRaise
    /\ UNCHANGED <<op, ops, issues, stale, warnings, code_slice, summary,
                    null_context, focus, solution_report, levels, fetched,
                    after, hw, training_data, tuned, twarnings, tidx,
                    iwarnings, iidx, opLog>>

\* level_three, line 124, then execute, line 49: the run is complete
L3Run ==
    /\ pc = "L3_loop"
    /\ LoopDone(idx, warnings)
    /\ VerifierRun(3, "done")
    /\ UNCHANGED <<op, ops, warnings, idx, code_slice, summary, null_context,
                   focus, solution_report, annotated_code, fails, attempts, levels,
                   hw, lastArgs, processed, fetched, training_data, tuned, twarnings,
                   tidx, iwarnings, iidx, opLog>>

\* ------------------------------------------------- training loop
\* train_nullfix, line 131: a training call starts
train_nullfix ==
    /\ pc \in {"idle", "done", "aborted"}
    /\ ops < MaxOps
    /\ ops' = ops + 1
    /\ op' = "train"
    /\ opLog' = Append(LastCall(opLog, fatal),
                        [kind |-> "train", n |-> -1,
                         before |-> Len(training_data), end |-> "running"])
    /\ pc' = "T_getWarnings"
    /\ levels' = <<>>
    /\ calls' = NoCalls
    /\ fetched' = [k \in 1..3 |-> <<>>]
    /\ after' = [k \in 1..3 |-> <<>>]
    /\ hw' = <<>>
    /\ fatal' = "none" /\ failedAt' = <<0, 0>>
    /\ lastArgs' = NoArgs
    /\ processed' = [k \in 1..3 |-> <<>>]
    /\ twarnings' = <<>> /\ tidx' = 1
    /\ iwarnings' = <<>> /\ iidx' = 1
    /\ warnings' = <<>> /\ idx' = 1
    /\ code_slice' = NoSlice /\ summary' = <<>> /\ null_context' = <<>>
    /\ focus' = 0
    /\ solution_report' = <<>> /\ annotated_code' = <<>>
    /\ fails' = 0 /\ attempts' = 0
    /\ UNCHANGED <<issues, stale, training_data, tuned>>

\* train_nullfix, line 134: warnings = null_away.getWarnings()
TGetWarnings ==
    /\ pc = "T_getWarnings"
    /\ calls' = Bump("getWarnings")
    /\ \E o \in VerifierOutcomes :
         IF o = "fault"
         THEN /\ Raise("verifier", 0, 0)
              /\ UNCHANGED <<twarnings, tidx, opLog>>
         ELSE /\ twarnings' = issues
              /\ tidx' = 1
              /\ opLog' = [opLog EXCEPT ![Len(opLog)].n = Len(issues)]
              /\ pc' = "T_loop"
              /\ NoRaise
    /\ UNCHANGED <<op, ops, issues, stale, warnings, idx, code_slice,
                    summary, null_context, focus, solution_report,
                    annotated_code, fails, attempts, levels, fetched, after,
                    hw, lastArgs, processed, training_data, tuned, iwarnings,
                    iidx>>

\* train_nullfix, lines 135-137: slice and context of the next warning; the
\* call returns when the loop is over.
TLoop ==
    /\ pc = "T_loop"
    /\ IF LoopDone(tidx, twarnings)
       THEN /\ pc' = "done"
            /\ NoRaise
            /\ UNCHANGED <<calls, code_slice, null_context, focus>>
       ELSE /\ calls' = [calls EXCEPT !["slice"] = @ + 1, !["context"] = @ + 1]
            /\ focus' = twarnings[tidx]
            /\ \E n \in SliceLens, o \in SendOutcomes, r \in Responses :
                 LET res == get_context(o, r) IN
                 /\ code_slice' = [w |-> twarnings[tidx], len |-> n]
                 /\ IF res.raise # "none"
                    THEN /\ Raise(res.raise, 0, twarnings[tidx])
                         /\ UNCHANGED null_context
                    ELSE /\ null_context' = res.context
                         /\ pc' = "T_train"
                         /\ NoRaise
    /\ UNCHANGED <<op, ops, issues, stale, warnings, idx, summary,
                    solution_report, annotated_code, fails, attempts, levels,
                    fetched, after, hw, lastArgs, processed, training_data,
                    tuned, twarnings, tidx, iwarnings, iidx, opLog>>

\* train_nullfix, line 140 and NullFix.train, line 76:
\* null_fix.train(null_away, slicer, null_focus) fetches the warnings itself
TrainGetWarnings ==
    /\ pc = "T_train"
    /\ calls' = [calls EXCEPT !["train"] = @ + 1, !["getWarnings"] = @ + 1]
    /\ \E o \in VerifierOutcomes :
         IF o = "fault"
         THEN /\ Raise("verifier", 0, twarnings[tidx])
              /\ UNCHANGED <<iwarnings, iidx>>
         ELSE /\ iwarnings' = issues
              /\ iidx' = 1
              /\ pc' = "T_body"
              /\ NoRaise
    /\ UNCHANGED <<op, ops, issues, stale, warnings, idx, code_slice,
                    summary, null_context, focus, solution_report,
                    annotated_code, fails, attempts, levels, fetched, after,
                    hw, lastArgs, processed, training_data, tuned, twarnings,
                    tidx, opLog>>

\* a training sample as NullFix.train, line 86 builds it
Sample(slice, context, annotated, new_warnings) ==
    <<slice, context, annotated, new_warnings>>

\* NullFix.train, line 86: self.training_data.append(sample)
AppendSample(data, sample) == Append(data, sample)

\* NullFix.train, lines 77-87: one iteration of train's loop, which ends at
\* the first exception; train returns to train_nullfix's loop when its own
\* loop is over.  null_focus.getContext is looked up on the NullFocus object.
TrainBody ==
    /\ pc = "T_body"
    /\ IF LoopDone(iidx, iwarnings)
       THEN /\ tidx' = tidx + 1
            /\ pc' = "T_loop"
            /\ NoRaise
            /\ UNCHANGED <<calls, code_slice, null_context, focus, annotated_code,
                           issues, stale, training_data, tuned, iidx,
                           fails, attempts>>
       ELSE IF "getContext" \notin NullFocusAttrs
       THEN /\ calls' = Bump("slice")
            /\ \E n \in SliceLens :
                 code_slice' = [w |-> iwarnings[iidx], len |-> n]
            /\ Raise("attribute", 0, iwarnings[iidx])
            /\ UNCHANGED <<null_context, focus, annotated_code, issues, stale,
                           training_data, tuned, iidx, tidx, fails, attempts>>
       ELSE \E n \in SliceLens, o \in SendOutcomes, r \in Responses,
               k \in 0..Tries, r2 \in Responses,
               vo \in VerifierOutcomes, go \in VerifierOutcomes,
               new_warnings \in IssueLists :
            LET res == get_context(o, r)
                slice == [w |-> iwarnings[iidx], len |-> n]
                annotated == parse_response(r2)
                placed == res.raise = "none" /\ ~RetryExhausted(k)
                ran == placed /\ vo = "ok"
                appended == ran /\ go = "ok"
            IN
            /\ calls' = [calls EXCEPT
                          !["slice"] = @ + 1,
                          !["context"] = @ + 1,
                          !["fix"] = @ + (IF res.raise = "none" THEN 1 ELSE 0),
                          !["run"] = @ + (IF placed THEN 1 ELSE 0),
                          !["getWarnings"] = @ + (IF ran THEN 1 ELSE 0)]
            /\ code_slice' = slice
            /\ focus' = iwarnings[iidx]
            /\ null_context' = IF res.raise = "none" THEN res.context
                               ELSE null_context
            /\ fails' = IF res.raise = "none" THEN k ELSE fails
            /\ attempts' = IF res.raise # "none" THEN attempts
                           ELSE IF RetryExhausted(k) THEN k ELSE k + 1
            /\ annotated_code' = IF placed THEN annotated ELSE annotated_code
            /\ issues' = IF ran THEN new_warnings ELSE issues
            /\ stale' = IF ran THEN FALSE ELSE stale
            /\ training_data' =
                 IF appended
                 THEN AppendSample(training_data,
                        Sample(slice, res.context, annotated, new_warnings))
                 ELSE training_data
            /\ tuned' = IF appended THEN training_data' ELSE tuned
            /\ tidx' = tidx
            /\ IF appended
               THEN /\ iidx' = iidx + 1
                    /\ pc' = pc
                    /\ NoRaise
               ELSE /\ iidx' = iidx
                    /\ Raise(IF res.raise # "none" THEN res.raise
                             ELSE IF ~placed THEN "exhausted"
                             ELSE "verifier", 0, iwarnings[iidx])
    /\ UNCHANGED <<op, ops, warnings, idx, summary, solution_report, levels,
                    fetched, after, hw, lastArgs, processed, twarnings,
                    iwarnings, opLog>>

\* ------------------------------------------------- the system
Next ==
    \/ execute
    \/ placeInitialAnnotations
    \/ L1GetWarnings
    \/ L1Refactor
    \/ L1Run
    \/ CheckLevel2
    \/ L2GetWarnings
    \/ L2Slice
    \/ L2Summarize
    \/ L2PlaceNullable
    \/ L2Run
    \/ CheckLevel3
    \/ L3GetWarnings
    \/ L3GetContext
    \/ L3SearchSolutions
    \/ L3PlaceAnnotations
    \/ L3Run
    \/ train_nullfix
    \/ TGetWarnings
    \/ TLoop
    \/ TrainGetWarnings
    \/ TrainBody

Spec == Init /\ [][Next]_vars

\* ------------------------------------------------- a verifier that re-checks
\* A verifier whose getWarnings() checks the code itself before it enumerates
\* (level_one's comment at line 61 reads the call that way): the list a level
\* fetches can then differ from the one hasWarnings() answered on.  This is
\* the check part of such a call in levels 2 and 3, in the case that the
\* issues reported at the test are gone; the enumeration follows.
RecheckOnEnumerate ==
    /\ pc \in {"L2_getWarnings", "L3_getWarnings"}
    /\ issues # <<>>
    /\ issues' = <<>>
    /\ stale' = FALSE
    /\ UNCHANGED <<pc, op, ops, warnings, idx, code_slice, summary,
                    null_context, focus, solution_report, annotated_code,
                    fails, attempts, calls, levels, fetched, after, hw,
                    fatal, failedAt, lastArgs, processed, training_data,
                    tuned, twarnings, tidx, iwarnings, iidx, opLog>>

NextRecheck ==
    \/ Next
    \/ RecheckOnEnumerate

SpecRecheck == Init /\ [][NextRecheck]_vars

\* ------------------------------------------------- a deterministic verifier
\* A verifier whose result is a function of the code: a check of code that
\* has not changed since the last check repeats the last result.
SameCodeSameResult == stale \/ issues' = issues

\* level_two, line 98: null_away.run() of such a verifier
L2RunSameCode == L2Run /\ SameCodeSameResult

\* level_three, line 124: null_away.run() of such a verifier
L3RunSameCode == L3Run /\ SameCodeSameResult

NextSameCode ==
    \/ execute
    \/ placeInitialAnnotations
    \/ L1GetWarnings
    \/ L1Refactor
    \/ L1Run
    \/ CheckLevel2
    \/ L2GetWarnings
    \/ L2Slice
    \/ L2Summarize
    \/ L2PlaceNullable
    \/ L2RunSameCode
    \/ CheckLevel3
    \/ L3GetWarnings
    \/ L3GetContext
    \/ L3SearchSolutions
    \/ L3PlaceAnnotations
    \/ L3RunSameCode
    \/ train_nullfix
    \/ TGetWarnings
    \/ TLoop
    \/ TrainGetWarnings
    \/ TrainBody

SpecSameCode == Init /\ [][NextSameCode]_vars

\* ------------------------------------------------- properties
InLevels(k) == \E i \in 1..Len(levels) : levels[i] = k
ListOf(h) == IF h = <<>> THEN <<>> ELSE h[1]
Answered(h) == Cardinality({k \in 1..3 : h[k] # <<>>})
LastOf(s) == IF s = <<>> THEN 0 ELSE s[Len(s)]

\* C1: Level 2 is entered if and only if the verifier's check after Level 1
\* has been consulted and found issues; Level 3 is entered if and only if the
\* check after Level 2 has been consulted and found issues.
C1_EscalationIffWarnings ==
    op = "execute" =>
      /\ InLevels(2) <=>
           (Len(hw) >= 1 /\ after[1] # <<>> /\ Len(ListOf(after[1])) > 0)
      /\ InLevels(3) <=>
           (Len(hw) >= 2 /\ after[2] # <<>> /\ Len(ListOf(after[2])) > 0)

\* a run that entered Level 2 and, the check after it being clean, not Level 3
C1_Witness ==
    /\ op = "execute" /\ pc = "done"
    /\ levels = <<1, 2>> /\ Len(hw) = 2
    /\ Len(ListOf(after[1])) = 2 /\ ListOf(after[2]) = <<>>

\* every answer the verifier has given in this run was "no issues"
NoIssuesReported ==
    /\ \A k \in 1..3 : ListOf(fetched[k]) = <<>> /\ ListOf(after[k]) = <<>>
    /\ \A i \in 1..Len(hw) : ~hw[i]

\* C2: while the verifier reports no issue, a run stays in Level 1 and calls
\* no collaborator but the whole-unit annotation pass, which it calls once;
\* the completed run has made that one call and Level 1's re-run.
C2_ZeroIssuesOnlyLevelOne ==
    (op = "execute" /\ NoIssuesReported) =>
      /\ levels = <<1>>
      /\ calls["annotate"] <= 1
      /\ \A c \in {"refactor", "slice", "summarize", "infer", "context",
                   "helper", "fix"} : calls[c] = 0
      /\ pc = "done" => (calls["annotate"] = 1 /\ calls["run"] = 1)

\* a completed run during which the verifier never reported an issue
C2_Witness ==
    /\ op = "execute" /\ pc = "done" /\ NoIssuesReported
    /\ fetched[1] = << <<>> >> /\ after[1] = << <<>> >> /\ hw = <<FALSE, FALSE>>

\* C3: in a completed run Level 2's strategy has been invoked once for each
\* issue of the check after Level 1, in order, and Level 3's once for each
\* issue of the check after Level 2; a level not entered invoked nothing.
C3_OneInvocationPerIssue ==
    (op = "execute" /\ pc = "done") =>
      LET l2 == IF InLevels(2) THEN ListOf(after[1]) ELSE <<>>
          l3 == IF InLevels(3) THEN ListOf(after[2]) ELSE <<>>
      IN /\ calls["infer"] = Len(l2) /\ processed[2] = l2
         /\ calls["fix"] = Len(l3) /\ processed[3] = l3

\* a completed run with two issues after Level 1 and one after Level 2
C3_Witness ==
    /\ op = "execute" /\ pc = "done" /\ levels = <<1, 2, 3>>
    /\ Len(ListOf(after[1])) = 2 /\ Len(ListOf(after[2])) = 1
    /\ calls["infer"] = 2 /\ calls["fix"] = 1

\* C4: in Level 2 a slice of length at most 300 goes to the strategy with an
\* empty summary, and a longer slice, once the size test and the summarizing
\* step are over, has gone to the strategy together with its summary.
C4_SliceSummaryPolicy ==
    (op = "execute" /\ InLevels(2) /\ ~InLevels(3)) =>
      /\ (calls["infer"] > 0 /\ lastArgs.slice.len <= 300) =>
           lastArgs.summary = <<>>
      /\ (/\ code_slice.len > 300
          /\ pc # "L2_summarize"
          /\ ~(pc = "L2_place" /\ attempts = 0)) =>
           (lastArgs.slice = code_slice
              /\ lastArgs.summary = Summarize(code_slice))

C6_ExhaustionAborts ==
    fatal = "exhausted" =>
      LET L == failedAt[1] IN
      /\ pc = "aborted"
      /\ LastOf(levels) = L
      /\ after[L] = <<>>
      /\ calls["run"] = L - 1
      /\ idx <= Len(warnings) /\ warnings[idx] = failedAt[2]
      /\ processed[L] = SubSeq(warnings, 1, idx - 1)

\* retries exhausted on the first of two issues of Level 2
C6_Witness ==
    /\ fatal = "exhausted" /\ failedAt = <<2, 1>>
    /\ warnings = <<1, 2>> /\ idx = 1 /\ pc = "aborted"

\* C7: a hard fault of a verifier operation aborts the run where it happens;
\* a run that goes on or completes has had an answer to every verifier call,
\* and a faulting call is the last thing the run does.
C7_VerifierFaultAborts ==
    op = "execute" =>
      LET answered == Len(hw) + Answered(after) + Answered(fetched)
          made == calls["hasWarnings"] + calls["run"] + calls["getWarnings"]
      IN /\ fatal = "verifier" => (pc = "aborted" /\ made = answered + 1)
         /\ fatal # "verifier" => made = answered
         /\ pc = "done" => fatal = "none"

\* the verifier faults during Level 2's re-run
C7_Witness ==
    /\ op = "execute" /\ pc = "aborted" /\ fatal = "verifier"
    /\ failedAt = <<2, 0>> /\ calls["run"] = 2 /\ after[2] = <<>>

\* C8: two consecutive training calls that find I1 and then I2 outstanding
\* issues, no collaborator failing, have appended I1 + I2 samples in total.
C8_TwoTrainCallsAppend ==
    (/\ Len(opLog) = 2
     /\ opLog[1].kind = "train" /\ opLog[2].kind = "train"
     /\ opLog[1].n >= 0 /\ opLog[2].n >= 0
     /\ opLog[1].end # "env"
     /\ pc \in {"done", "aborted"} /\ EndedBy(fatal) # "env") =>
      Len(training_data) = opLog[1].before + opLog[1].n + opLog[2].n

C10_NoPerIssueCallsInLevelOne ==
    (op = "execute" /\ after[1] # <<>>) =>
      calls["annotate"] + calls["refactor"] = 1

\* C10, amended: every run starts with Level 1; Level 1 calls the whole-unit
\* annotation pass once, then the refactoring tool once per issue that its
\* getWarnings() returned, in order, and is followed by one verifier re-run.
C10_LevelOneOncePlusRefactors ==
    op = "execute" =>
      /\ levels # <<>> /\ levels[1] = 1
      /\ calls["annotate"] <= 1
      /\ levels = <<1>> => calls["run"] <= 1
      /\ after[1] # <<>> =>
           /\ calls["annotate"] = 1
           /\ processed[1] = ListOf(fetched[1])
           /\ calls["refactor"] = Len(ListOf(fetched[1]))
      /\ pc = "X_check2" => (after[1] # <<>> /\ calls["run"] = 1)

\* Level 1 is over after two per-issue refactoring calls
C10_Witness ==
    /\ op = "execute" /\ pc = "X_check2"
    /\ calls["annotate"] = 1 /\ calls["refactor"] = 2 /\ calls["run"] = 1

\* C11: every generative call is retried: a run is given up over failing
\* generative calls only after 3 transient failures of one call, never after
\* a single one.
C11_EveryGenerativeCallRetried ==
    (op = "execute" /\ pc = "aborted" /\ fatal \in {"transient", "exhausted"})
      => fails = 3

\* C12: when a level is about to fetch its issue list, the verifier's last
\* check is a check of the current code: nothing has modified the code since
\* that check (levels 1, 2 and 3).
C12_ListFetchedFromFreshCheck ==
    (op = "execute" /\
     pc \in {"L1_getWarnings", "L2_getWarnings", "L3_getWarnings"})
      => ~stale

\* the levels whose steps a position of execute() belongs to
LevelOnePositions == {"L1_annotate", "L1_getWarnings", "L1_loop", "X_check2"}

LevelTwoPositions == {"L2_getWarnings", "L2_loop", "L2_summarize", "L2_place"}

LevelThreePositions == {"L3_getWarnings", "L3_loop", "L3_search", "L3_place"}

\* C13: the levels executed in a run are a prefix of (1, 2, 3): while level 1
\* runs nothing else has run, level 2 runs only straight after level 1 and
\* level 3 only after levels 1 and 2, each once.
C13_LevelsArePrefix ==
    op = "execute" =>
      /\ levels \in {<<1>>, <<1, 2>>, <<1, 2, 3>>}
      /\ pc \in LevelOnePositions => levels = <<1>>
      /\ pc \in LevelTwoPositions => levels = <<1, 2>>
      /\ pc \in LevelThreePositions => levels = <<1, 2, 3>>
      /\ pc = "X_check3" => levels \in {<<1>>, <<1, 2>>}

C13_Witness ==
    op = "execute" /\ pc = "done" /\ levels = <<1, 2, 3>>

\* a step in which a strategy call of level 2 or 3 returns normally
StrategyReturns ==
    /\ pc \in {"L2_place", "L3_place"}
    /\ attempts' = attempts + 1
    /\ fails' = fails

\* C14: a strategy call that returns an empty result is not a failure: the
\* run goes on with the next issue of the level, and a level that reaches its
\* verifier re-run has processed every issue of its list.
C14_EmptyResultContinues ==
    /\ [][(StrategyReturns /\ annotated_code' = <<>>) =>
            /\ fatal' = "none"
            /\ idx' = idx + 1
            /\ pc' = (IF pc = "L2_place" THEN "L2_loop" ELSE "L3_loop")
            /\ processed'[LastOf(levels)] =
                 Append(processed[LastOf(levels)], warnings[idx])]_vars
    /\ [](\A k \in 2..3 :
            (op = "execute" /\ after[k] # <<>>) =>
              processed[k] = ListOf(fetched[k]))

C14_Witness ==
    /\ op = "execute"
    /\ pc = "X_check3"
    /\ after[2] # <<>>
    /\ annotated_code = <<>>
    /\ Len(processed[2]) = 2

\* the calls a level makes for each issue of its list
PerIssueCalls(k) ==
    IF k = 1 THEN {"refactor"}
    ELSE IF k = 2 THEN {"slice", "summarize", "infer"}
    ELSE {"context", "helper", "fix"}

\* the positions of execute() that lie behind level k
Behind(k) ==
    IF k = 1 THEN {"X_check2", "X_check3", "done"} \cup LevelTwoPositions
                    \cup LevelThreePositions
    ELSE IF k = 2 THEN {"X_check3", "done"} \cup LevelThreePositions
    ELSE {"done"}

\* C15: a level that fetches an empty issue list makes none of its per-issue
\* calls (slicer, summariser, context, helper, strategy, refactoring), is
\* left only through its verifier re-run, and the escalation decision that
\* follows is the answer on that re-run's result.
C15_EmptyListLevel ==
    \A k \in 1..3 :
      (op = "execute" /\ fetched[k] = <<(<<>>)>>) =>
        /\ processed[k] = <<>>
        /\ \A c \in PerIssueCalls(k) : calls[c] = 0
        /\ (pc \in Behind(k) /\ InLevels(k)) => after[k] # <<>>
        /\ (k < 3 /\ Len(hw) >= k /\ after[k] # <<>>) =>
             /\ hw[k] = hasWarnings(ListOf(after[k]))
             /\ InLevels(k + 1) = hw[k]

C15_Witness ==
    /\ op = "execute"
    /\ fetched[2] = <<(<<>>)>>
    /\ after[2] # <<>>
    /\ Len(hw) = 2
    /\ hw[2]
    /\ pc = "done"
    /\ levels = <<1, 2, 3>>
    /\ fetched[3] = <<(<<>>)>>

\* C16: in level 3 the calls for an issue are made in the order context,
\* solutions, strategy; the solutions are derived from the context of that
\* issue and the strategy receives that issue, that context and those
\* solutions; an issue's calls are over before the next issue's begin, and the
\* verifier is re-run once, after the last issue.
C16_LevelThreeCallOrder ==
    (op = "execute" /\ InLevels(3)) =>
      /\ pc = "L3_loop" =>
           /\ calls["context"] = idx - 1
           /\ calls["helper"] = idx - 1
           /\ calls["fix"] = idx - 1
      /\ pc = "L3_search" =>
           /\ calls["context"] = idx
           /\ calls["helper"] = idx - 1
           /\ calls["fix"] = idx - 1
           /\ focus = warnings[idx]
      /\ pc = "L3_place" =>
           /\ calls["context"] = idx
           /\ calls["helper"] = idx
           /\ calls["fix"] = idx - (IF attempts = 0 THEN 1 ELSE 0)
           /\ focus = warnings[idx]
           /\ solution_report = searchSolutions(null_context)
      /\ (pc \in {"L3_place", "L3_loop", "done"} /\ calls["fix"] > 0
            /\ (pc = "L3_place" => attempts > 0)) =>
           /\ lastArgs.w = focus
           /\ lastArgs.context = null_context
           /\ lastArgs.report = searchSolutions(null_context)
      /\ pc \in LevelThreePositions => after[3] = <<>>
      /\ after[3] # <<>> =>
           /\ processed[3] = warnings
           /\ calls["context"] = Len(warnings)
           /\ calls["helper"] = Len(warnings)
           /\ calls["fix"] = Len(warnings)
           /\ calls["run"] = 3

C16_Witness ==
    /\ op = "execute"
    /\ pc = "done"
    /\ levels = <<1, 2, 3>>
    /\ processed[3] = <<1, 2>>
    /\ calls["fix"] = 2
    /\ lastArgs.w = 2
    /\ lastArgs.context # <<>>

\* C17: a training call that found outstanding issues and in which no
\* collaborator failed has invoked the strategy, re-run the verifier,
\* appended a sample that records the issues enumerated after that re-run,
\* and handed the whole corpus to the refinement step.
C17_TrainingIteration ==
    (/\ op = "train"
     /\ pc \in {"done", "aborted"}
     /\ EndedBy(fatal) # "env"
     /\ opLog[Len(opLog)].n >= 1) =>
      /\ calls["fix"] >= 1
      /\ calls["run"] >= 1
      /\ Len(training_data) > opLog[Len(opLog)].before
      /\ training_data[Len(training_data)][4] = issues
      /\ tuned = training_data

Stage(p) ==
    IF p = "L1_annotate" THEN 1
    ELSE IF p = "L1_getWarnings" THEN 2
    ELSE IF p = "L1_loop" THEN 3
    ELSE IF p = "X_check2" THEN 4
    ELSE IF p = "L2_getWarnings" THEN 5
    ELSE IF p \in {"L2_loop", "L2_summarize", "L2_place"} THEN 6
    ELSE IF p = "X_check3" THEN 7
    ELSE IF p = "L3_getWarnings" THEN 8
    ELSE IF p \in {"L3_loop", "L3_search", "L3_place"} THEN 9
    ELSE 10

\* what is left of a level's loop: the issues not yet finished, each worth
\* the steps of one iteration (two calls and up to Tries attempts), less the
\* steps taken in the current iteration
LoopLeft(p, i, ws, f) ==
    (Len(ws) - i + 1) * (Tries + 3)
      - (IF p \in {"L2_summarize", "L3_search"} THEN 1
         ELSE IF p \in {"L2_place", "L3_place"} THEN 2 + f
         ELSE 0)

InLoop(p) == Stage(p) \in {3, 6, 9}

\* C19: a run of execute() terminates: every step of a run moves it forward
\* in the code or shortens what is left of the current loop, which is never
\* negative; a run that has not ended can always take a step; and it ends,
\* completed or aborted, after at most three levels and three verifier
\* re-runs.
C19_ExecuteTerminates ==
    /\ [][(op = "execute" /\ op' = "execute" /\ ops' = ops) =>
            \/ Stage(pc') > Stage(pc)
            \/ /\ Stage(pc') = Stage(pc)
               /\ LoopLeft(pc', idx', warnings', fails')
                    < LoopLeft(pc, idx, warnings, fails)]_vars
    /\ [](op = "execute" =>
            /\ InLoop(pc) => LoopLeft(pc, idx, warnings, fails) >= 0
            /\ pc \notin {"done", "aborted"} => ENABLED Next
            /\ Len(levels) <= 3
            /\ calls["run"] <= 3)

C19_Witness ==
    /\ op = "execute"
    /\ pc = "done"
    /\ calls["run"] = 3
    /\ fails = Tries - 1

====
